---- MODULE Spec2Model ----
(***************************************************************************)
(* A model of Scripts/bifrostWedge.py: biFrostWedge.main, wedgeSetup and   *)
(* montage, statement by statement.                                        *)
(*                                                                         *)
(* Text is a sequence of atoms.  An atom is one character that the code    *)
(* looks at ("/", ".", "_", a digit) or a run of characters it never looks *)
(* into ("proj", "cache", "Render").  A shell command is the sequence of   *)
(* the words of its format string, each slot filled with its text.         *)
(* The host application (maya.cmds), the file system and the programs run  *)
(* through subprocess.call are the environment: each call is logged and    *)
(* its outcome is chosen nondeterministically.                             *)
(***************************************************************************)
EXTENDS Integers, Sequences, FiniteSets, TLC

\* ----------------------------------------------------------------- bounds
\* the longest wedge list
MaxN == 2
\* the largest frame number
MaxFrame == 1

\* ------------------------------------------------------ program constants
\* '%02d' % i
IndexPad == 2
\* '{0:04d}'.format(f), and the renderer's -pad
FramePad == 4
\* cmds.setAttr(containerName+'.enableDiskCache', 1)
EnableDiskCacheOn == 1
\* cmds.setAttr(containerName+'.cachingControl', 2)
CachingControlDisk == 2

\* ------------------------------------------------------------------- text
SEP == "/"

Digits == <<"0", "1", "2", "3", "4", "5", "6", "7", "8", "9">>

IsDigit(c) == \E k \in 1..10 : Digits[k] = c

DigitVal(c) == (CHOOSE k \in 1..10 : Digits[k] = c) - 1

\* '{0}'.format(n) of an int n >= 0
RECURSIVE Dec(_)
Dec(n) == IF n < 10 THEN <<Digits[n + 1]>> ELSE Dec(n \div 10) \o <<Digits[(n % 10) + 1]>>

\* '%0<w>d' % n and '{0:0<w>d}'.format(n) of an int n >= 0: at least w digits
RECURSIVE ZeroFill(_, _)
ZeroFill(s, w) == IF Len(s) >= w THEN s ELSE ZeroFill(<<"0">> \o s, w)

Pad(n, w) == ZeroFill(Dec(n), w)

\* s.replace(old, new), old and new one character each
Replace(s, old, new) == [k \in 1..Len(s) |-> IF s[k] = old THEN new ELSE s[k]]

\* s.split(c)[0]: the text before the first c, all of s when it holds none
SplitFirst(s, c) ==
    IF \E k \in 1..Len(s) : s[k] = c
    THEN SubSeq(s, 1, (CHOOSE k \in 1..Len(s) : s[k] = c /\ \A m \in 1..(k - 1) : s[m] # c) - 1)
    ELSE s

\* os.path.split(p)[-1]: the text after the last separator
PathTail(p) ==
    IF \E k \in 1..Len(p) : p[k] = SEP
    THEN SubSeq(p, (CHOOSE k \in 1..Len(p) : p[k] = SEP /\ \A m \in (k + 1)..Len(p) : p[m] # SEP) + 1, Len(p))
    ELSE p

\* posixpath.join(a, b)
PathJoin2(a, b) ==
    IF Len(b) > 0 /\ b[1] = SEP THEN b
    ELSE IF Len(a) = 0 \/ a[Len(a)] = SEP THEN a \o b
    ELSE a \o <<SEP>> \o b

\* posixpath.join(parts[1], parts[2], ...)
RECURSIVE PathJoin(_)
PathJoin(parts) ==
    IF Len(parts) = 1 THEN parts[1]
    ELSE PathJoin2(PathJoin(SubSeq(parts, 1, Len(parts) - 1)), parts[Len(parts)])

\* ----------------------------------------------------------------- values
\* a number m / 10^e, with e as small as it can be: 0.5 is (5, 1), 1.0 is (1, 0)
NumVal(m, e) == [t |-> "num", m |-> m, e |-> e, s |-> <<>>]

IntVal(k) == NumVal(k, 0)

StrVal(s) == [t |-> "str", m |-> 0, e |-> 0, s |-> s]

RECURSIVE DigitsVal(_)
DigitsVal(s) == IF Len(s) = 0 THEN 0 ELSE 10 * DigitsVal(SubSeq(s, 1, Len(s) - 1)) + DigitVal(s[Len(s)])

RECURSIVE StripZeros(_)
StripZeros(s) == IF Len(s) > 0 /\ s[Len(s)] = "0" THEN StripZeros(SubSeq(s, 1, Len(s) - 1)) ELSE s

\* whether float(s) returns rather than raises ValueError: digits with at most
\* one point (the texts of the model carry no sign, exponent or blank)
IsFloat(s) ==
    LET ip == SplitFirst(s, ".")
        fp == SubSeq(s, Len(ip) + 2, Len(s))
    IN  /\ \A k \in 1..Len(ip) : IsDigit(ip[k])
        /\ \A k \in 1..Len(fp) : IsDigit(fp[k])
        /\ Len(ip) + Len(fp) > 0

\* float(s)
Float(s) ==
    LET ip == SplitFirst(s, ".")
        fp == StripZeros(SubSeq(s, Len(ip) + 2, Len(s)))
    IN  NumVal(DigitsVal(ip \o fp), Len(fp))

\* ----------------------------------------------------------- command line
\* --wedge values: two that float() converts and one that it does not
WedgeValues == {<<"1">>, <<"0", ".", "5">>, <<"x">>}

\* --wedge, nargs='+': at least one value
WedgeLists == UNION {[1..n -> WedgeValues] : n \in 1..MaxN}

\* --frames, nargs=2, type=int: a start and an end, the end possibly before the start
FrameRanges == (0..(MaxFrame + 1)) \X (0..MaxFrame)

NodeAttr == <<"emitter", "_", "stiction">>

\* --mayaFile, --projDir, --containerName, --node, and the directories that
\* exist when the run starts
Invocations == {
    \* a scene of the project, its name carrying two points
    [mayaFile |-> <<"/", "proj", "/", "scenes", "/", "river", ".", "v07", ".", "mb">>,
     projDir |-> <<"/", "proj">>, containerName |-> <<"liquid">>,
     wedgeNode |-> <<"emitter", ".", "stiction">>, dirs |-> {}],
    \* a project directory written with its trailing separator, the wedged
    \* attribute on the container itself
    [mayaFile |-> <<"/", "proj", "/", "scenes", "/", "river", ".", "mb">>,
     projDir |-> <<"/", "proj", "/">>, containerName |-> <<"liquid">>,
     wedgeNode |-> <<"liquid", ".", "vorticityMult">>, dirs |-> {}],
    \* an empty project directory and a scene in the working directory
    [mayaFile |-> <<"river", ".", "mb">>,
     projDir |-> <<>>, containerName |-> <<"liquid">>,
     wedgeNode |-> <<"emitter", ".", "stiction">>, dirs |-> {}],
    \* the scene is itself a variant an earlier run left in the cache directory
    [mayaFile |-> <<"/", "proj", "/", "cache", "/", "bifrost", "/">> \o NodeAttr \o <<"_", "0", "0", "/">>
                  \o NodeAttr \o <<"/">> \o NodeAttr \o <<"_", "0", "0", ".", "mb">>,
     projDir |-> <<"/", "proj">>, containerName |-> <<"liquid">>,
     wedgeNode |-> <<"emitter", ".", "stiction">>,
     dirs |-> {<<"/", "proj", "/", "cache", "/", "bifrost", "/">> \o NodeAttr \o <<"_", "0", "0", "/">> \o NodeAttr}],
    \* the wedged attribute is one of the container's cache properties
    [mayaFile |-> <<"/", "proj", "/", "scenes", "/", "river", ".", "mb">>,
     projDir |-> <<"/", "proj">>, containerName |-> <<"liquid">>,
     wedgeNode |-> <<"liquid", ".", "cachingControl">>, dirs |-> {}]}

\* ------------------------------------------------------------ environment
\* a call of the host application returns or raises
HostOutcomes == {"ok", "raise"}

\* subprocess.call(cmd, shell=True) returns the command's exit status, zero or
\* not, or raises OSError when the shell cannot be started
CallOutcomes == {"zero", "nonzero", "raise"}

NoScene == [open |-> FALSE, name |-> <<>>, attrs |-> {}]

NoExc == [type |-> "none", msg |-> ""]

SystemExit(msg) == [type |-> "SystemExit", msg |-> msg]

\* one operation of the run, as the outside sees it
Ev(op, k, fr, path, cmd, val, raised) ==
    [op |-> op, i |-> k, f |-> fr, path |-> path, cmd |-> cmd, val |-> val, attrs |-> {}, raised |-> raised]

\* a save, with the attributes of the scene it wrote
EvSave(k, path, attrs, raised) ==
    [op |-> "save", i |-> k, f |-> -1, path |-> path, cmd |-> <<>>, val |-> StrVal(<<>>), attrs |-> attrs,
     raised |-> raised]

NoVal == StrVal(<<>>)

\* cmds.setAttr(key, val) on the attributes of the open scene
SetAttr(attrs, key, val) == {p \in attrs : p[1] # key} \cup {<<key, val>>}

\* ------------------------------------------------------------------ state
VARIABLES
    args,        \* the parsed command line: mayaFile, projDir, containerName, wedgeNode, wedgeList, dryRun, montage, frames
    pc,          \* the statement the process is at
    i,           \* main's loop index
    cacheDir,    \* main's cacheDir
    wedgeName,   \* main's wedgeName
    wedgePath,   \* wedgeSetup's wedgePath, and what it returned to main
    attr,        \* wedgeSetup's attr
    scene,       \* the scene open in the host application
    fs,          \* the scene files on disk: path -> attributes set since the source
    dirs,        \* the directories on disk
    exc,         \* the exception in flight
    exitMsg,     \* what the process exited with
    failed,      \* whether an operation has failed: a raise or a nonzero status
    log,         \* the operations performed, in order
    f,           \* montage's frame
    mi,          \* montage's loop index
    tileImages,  \* montage's tileImages
    child        \* the variants whose renderer process is running

vars == <<args, pc, i, cacheDir, wedgeName, wedgePath, attr, scene, fs, dirs, exc, exitMsg,
          failed, log, f, mi, tileImages, child>>

N == Len(args.wedgeList)

\* wedgeNode.replace('.', '_')
NodeName(wedgeNode) == Replace(wedgeNode, ".", "_")

\* os.path.split(mayaFile)[-1].split('.')[0]
SceneName(mayaFile) == SplitFirst(PathTail(mayaFile), ".")

\* the cache directory without the scene's name in it
CacheDirNoScene(projDir, mayaFile, wedgeNode) ==
    PathJoin(<<projDir, <<"cache">>, <<"bifrost">>, NodeName(wedgeNode)>>)

\* os.path.join(projDir, 'cache', 'bifrost', sceneName, wedgeNode.replace('.', '_'))
CacheDir(projDir, mayaFile, wedgeNode) ==
    PathJoin(<<projDir, <<"cache">>, <<"bifrost">>, SceneName(mayaFile), NodeName(wedgeNode)>>)

\* wedgeNode.replace('.', '_')+'_%02d'%(i)
WedgeName(wedgeNode, k) == NodeName(wedgeNode) \o <<"_">> \o Pad(k, IndexPad)

\* os.path.join(cacheDir, wedgeName+'.mb')
WedgePath(dir, name) == PathJoin(<<dir, name \o <<".", "mb">>>>)

Init ==
    \E inv \in Invocations, wl \in WedgeLists, dr \in BOOLEAN, mo \in BOOLEAN, fr \in FrameRanges :
        /\ args = [mayaFile |-> inv.mayaFile, projDir |-> inv.projDir,
                   containerName |-> inv.containerName, wedgeNode |-> inv.wedgeNode,
                   wedgeList |-> wl, dryRun |-> dr, montage |-> mo, frames |-> fr]
        /\ dirs = inv.dirs
        /\ fs = (inv.mayaFile :> {})
        /\ pc = "main_mkdir"
        /\ i = 0
        /\ cacheDir = <<>>
        /\ wedgeName = <<>>
        /\ wedgePath = <<>>
        /\ attr = NoVal
        /\ scene = NoScene
        /\ exc = NoExc
        /\ exitMsg = ""
        /\ failed = FALSE
        /\ log = <<>>
        /\ f = 0
        /\ mi = 0
        /\ tileImages = <<>>
        /\ child = {}

\* ------------------------------------------------------------------- main
\* sys.exit(msg) outside any try, and an exception nothing catches
Exit(msg) == pc' = "exited" /\ exitMsg' = msg

\* lines 53-58: the cache directory, made when it does not exist; makedirs is
\* in no try, so its OSError ends the process with a traceback
MainMkdir ==
    /\ pc = "main_mkdir"
    /\ LET dir == CacheDir(args.projDir, args.mayaFile, args.wedgeNode)
       IN  /\ cacheDir' = dir
           /\ IF dir \in dirs
              THEN /\ pc' = "main_for"
                   /\ UNCHANGED <<dirs, log, failed, exitMsg>>
              ELSE \E o \in HostOutcomes :
                      /\ log' = Append(log, Ev("makedirs", -1, -1, dir, <<>>, NoVal, o = "raise"))
                      /\ IF o = "ok"
                         THEN /\ dirs' = dirs \cup {dir}
                              /\ pc' = "main_for"
                              /\ UNCHANGED <<failed, exitMsg>>
                         ELSE /\ failed' = TRUE
                              /\ Exit("Traceback: OSError")
                              /\ UNCHANGED dirs
    /\ UNCHANGED <<args, i, wedgeName, wedgePath, attr, scene, fs, exc, f, mi, tileImages, child>>

\* lines 68-71: for i in range(len(wedgeList)), and the variant's name
MainFor ==
    /\ pc = "main_for"
    /\ IF i < N
       THEN /\ wedgeName' = WedgeName(args.wedgeNode, i)
            /\ pc' = "ws_float"
       ELSE /\ pc' = "main_montage"
            /\ UNCHANGED wedgeName
    /\ UNCHANGED <<args, i, cacheDir, wedgePath, attr, scene, fs, dirs, exc, exitMsg, failed, log,
                   f, mi, tileImages, child>>

\* an exception leaves wedgeSetup: main's bare except is where it lands
Raise(e) == pc' = "main_except" /\ exc' = e /\ failed' = TRUE

\* lines 96-100: float(wedgeAttr); a ValueError is printed and turned into sys.exit
WsFloat ==
    /\ pc = "ws_float"
    /\ LET w == args.wedgeList[i + 1]
       IN  /\ log' = Append(log, Ev("float", i, -1, w, <<>>, NoVal, ~IsFloat(w)))
           /\ IF IsFloat(w)
              THEN /\ attr' = Float(w)
                   /\ pc' = "ws_open"
                   /\ UNCHANGED <<exc, failed>>
              ELSE /\ Raise(SystemExit("Cant convert {0} into a float number"))
                   /\ UNCHANGED attr
    /\ UNCHANGED <<args, i, cacheDir, wedgeName, wedgePath, scene, fs, dirs, exitMsg, f, mi, tileImages, child>>

\* wedgeSetup going on from the variant saved last instead of the source scene
WsOpenStale ==
    /\ pc = "ws_open"
    /\ LET from == IF Len(wedgePath) > 0 THEN wedgePath ELSE args.mayaFile
       IN  \E o \in HostOutcomes :
              /\ log' = Append(log, Ev("open", i, -1, from, <<>>, NoVal, o = "raise"))
              /\ IF o = "ok"
                 THEN /\ scene' = [open |-> TRUE, name |-> from, attrs |-> fs[from]]
                      /\ pc' = "ws_setAttr"
                      /\ UNCHANGED <<exc, failed>>
                 ELSE /\ Raise(SystemExit("Something went wrong while trying to open the maya scene file"))
                      /\ UNCHANGED scene
    /\ UNCHANGED <<args, i, cacheDir, wedgeName, wedgePath, attr, fs, dirs, exitMsg, f, mi, tileImages, child>>

\* lines 101-109: maya.standalone.initialize(), loadMaya(), cmds.file(mayaFile, open=True)
WsOpen ==
    /\ pc = "ws_open"
    /\ \E o \in HostOutcomes :
          /\ log' = Append(log, Ev("open", i, -1, args.mayaFile, <<>>, NoVal, o = "raise"))
          /\ IF o = "ok"
             THEN /\ scene' = [open |-> TRUE, name |-> args.mayaFile, attrs |-> fs[args.mayaFile]]
                  /\ pc' = "ws_setAttr"
                  /\ UNCHANGED <<exc, failed>>
             ELSE /\ Raise(SystemExit("Something went wrong while trying to open the maya scene file"))
                  /\ UNCHANGED scene
    /\ UNCHANGED <<args, i, cacheDir, wedgeName, wedgePath, attr, fs, dirs, exitMsg, f, mi, tileImages, child>>

\* lines 111-117: cmds.setAttr(wedgeNode, attr)
WsSetAttr ==
    /\ pc = "ws_setAttr"
    /\ \E o \in HostOutcomes :
          /\ log' = Append(log, Ev("setAttr", i, -1, args.wedgeNode, <<>>, attr, o = "raise"))
          /\ IF o = "ok"
             THEN /\ scene' = [scene EXCEPT !.attrs = SetAttr(@, args.wedgeNode, attr)]
                  /\ pc' = "ws_container"
                  /\ UNCHANGED <<exc, failed>>
             ELSE /\ Raise(SystemExit("Couldn't set the wedge attributes"))
                  /\ UNCHANGED scene
    /\ UNCHANGED <<args, i, cacheDir, wedgeName, wedgePath, attr, fs, dirs, exitMsg, f, mi, tileImages, child>>

\* lines 123-127: the four properties of the container, in the order the code sets them
ContainerSets(containerName, dir, name) ==
    << <<containerName \o <<".", "enableDiskCache">>, IntVal(EnableDiskCacheOn)>>,
       <<containerName \o <<".", "cachingControl">>, IntVal(CachingControlDisk)>>,
       <<containerName \o <<".", "cacheDir">>, StrVal(dir \o <<"/">>)>>,
       <<containerName \o <<".", "cacheName">>, StrVal(name)>> >>

\* the first k of a sequence of setAttr calls
RECURSIVE SetAll(_, _, _)
SetAll(attrs, sets, k) ==
    IF k = 0 THEN attrs ELSE SetAttr(SetAll(attrs, sets, k - 1), sets[k][1], sets[k][2])

\* lines 119-130: the container is set to write its cache; the call that raises,
\* if one does, leaves the earlier ones done
WsContainer ==
    /\ pc = "ws_container"
    /\ LET sets == ContainerSets(args.containerName, cacheDir, wedgeName)
       IN  \E done \in 0..Len(sets) :
              /\ log' = Append(log, Ev("container", i, -1, args.containerName, <<>>, NoVal, done < Len(sets)))
              /\ scene' = [scene EXCEPT !.attrs = SetAll(@, sets, done)]
              /\ IF done = Len(sets)
                 THEN /\ pc' = "ws_save"
                      /\ UNCHANGED <<exc, failed>>
                 ELSE Raise(SystemExit("Couldn't set the Bifrost container to write status"))
    /\ UNCHANGED <<args, i, cacheDir, wedgeName, wedgePath, attr, fs, dirs, exitMsg, f, mi, tileImages, child>>

\* lines 132-141: cmds.file(rename=wedgePath), cmds.file(save=True, force=True, ...)
WsSave ==
    /\ pc = "ws_save"
    /\ LET path == WedgePath(cacheDir, wedgeName)
       IN  /\ wedgePath' = path
           /\ \E o \in HostOutcomes :
                 /\ log' = Append(log, EvSave(i, path, scene.attrs, o = "raise"))
                 /\ scene' = [scene EXCEPT !.name = path]
                 /\ IF o = "ok"
                    THEN /\ fs' = (path :> scene.attrs) @@ fs
                         /\ pc' = "ws_quit"
                         /\ UNCHANGED <<exc, failed>>
                    ELSE /\ Raise(SystemExit("Can't save to the following location"))
                         /\ UNCHANGED fs
    /\ UNCHANGED <<args, i, cacheDir, wedgeName, attr, dirs, exitMsg, f, mi, tileImages, child>>

\* lines 143-145: cmds.quit(force=True), in no try of wedgeSetup, then return wedgePath
WsQuit ==
    /\ pc = "ws_quit"
    /\ \E o \in HostOutcomes :
          /\ log' = Append(log, Ev("quit", i, -1, <<>>, <<>>, NoVal, o = "raise"))
          /\ IF o = "ok"
             THEN /\ scene' = NoScene
                  /\ pc' = "main_render"
                  /\ UNCHANGED <<exc, failed>>
             ELSE /\ Raise([type |-> "RuntimeError", msg |-> "quit"])
                  /\ UNCHANGED scene
    /\ UNCHANGED <<args, i, cacheDir, wedgeName, wedgePath, attr, fs, dirs, exitMsg, f, mi, tileImages, child>>

\* an except that prints and lets main go on to the renderer
MainExceptSwallow ==
    /\ pc = "main_except"
    /\ pc' = "main_render"
    /\ UNCHANGED <<args, i, cacheDir, wedgeName, wedgePath, attr, scene, fs, dirs, exc, exitMsg, failed, log,
                   f, mi, tileImages, child>>

\* lines 74-76: the bare except catches wedgeSetup's SystemExit as it catches
\* any exception, prints it and exits
MainExcept ==
    /\ pc = "main_except"
    /\ Exit("Couldn't setup wedgescene file")
    /\ UNCHANGED <<args, i, cacheDir, wedgeName, wedgePath, attr, scene, fs, dirs, exc, failed, log,
                   f, mi, tileImages, child>>

\* the renderer given the source scene instead of the variant
RenderCmdSourceScene(frames, projDir, dir, name, path) ==
    << <<"Render">>, <<"-renderer">>, <<"hw2">>, <<"-fnc">>, <<"3">>,
       <<"-s">>, Dec(frames[1]), <<"-e">>, Dec(frames[2]), <<"-pad">>, <<"4">>,
       <<"-x">>, <<"1", "2", "8", "0">>, <<"-y">>, <<"7", "2", "0">>, <<"-of">>, <<"jpg">>,
       <<"-proj">>, projDir, <<"-rd">>, dir, <<"-im">>, name, args.mayaFile >>

\* line 80: the renderer's command line
RenderCmd(frames, projDir, dir, name, path) ==
    << <<"Render">>, <<"-renderer">>, <<"hw2">>, <<"-fnc">>, <<"3">>,
       <<"-s">>, Dec(frames[1]), <<"-e">>, Dec(frames[2]), <<"-pad">>, <<"4">>,
       <<"-x">>, <<"1", "2", "8", "0">>, <<"-y">>, <<"7", "2", "0">>, <<"-of">>, <<"jpg">>,
       <<"-proj">>, projDir, <<"-rd">>, dir, <<"-im">>, name, path >>

\* the renderer started as Popen starts it: main goes on without waiting
MainRenderPopen ==
    /\ pc = "main_render"
    /\ ~args.dryRun
    /\ log' = Append(log, Ev("render", i, -1, wedgePath,
                             RenderCmd(args.frames, args.projDir, cacheDir, wedgeName, wedgePath),
                             NoVal, FALSE))
    /\ child' = child \cup {i}
    /\ i' = i + 1
    /\ pc' = "main_for"
    /\ UNCHANGED <<args, cacheDir, wedgeName, wedgePath, attr, scene, fs, dirs, exc, exitMsg, failed, f, mi,
                   tileImages>>

\* lines 78-84: subprocess.call starts the renderer through the shell, or
\* raises OSError when the shell cannot be started; the call is in no try
MainRender ==
    /\ pc = "main_render"
    /\ ~args.dryRun
    /\ \E o \in {"started", "raise"} :
          /\ log' = Append(log, Ev("render", i, -1, wedgePath,
                                   RenderCmd(args.frames, args.projDir, cacheDir, wedgeName, wedgePath),
                                   NoVal, o = "raise"))
          /\ IF o = "raise"
             THEN /\ Exit("Traceback: OSError")
                  /\ failed' = TRUE
                  /\ UNCHANGED child
             ELSE /\ child' = child \cup {i}
                  /\ pc' = "main_wait"
                  /\ UNCHANGED <<exitMsg, failed>>
    /\ UNCHANGED <<args, i, cacheDir, wedgeName, wedgePath, attr, scene, fs, dirs, exc, f, mi, tileImages>>

\* line 84: subprocess.call waits for the renderer and returns its exit status,
\* which main drops; the loop goes on to the next variant
MainWait ==
    /\ pc = "main_wait"
    /\ i \in child
    /\ \E o \in {"zero", "nonzero"} :
          /\ log' = Append(log, Ev("rendered", i, -1, wedgePath, <<>>, NoVal, FALSE))
          /\ failed' = (failed \/ o # "zero")
    /\ child' = child \ {i}
    /\ i' = i + 1
    /\ pc' = "main_for"
    /\ UNCHANGED <<args, cacheDir, wedgeName, wedgePath, attr, scene, fs, dirs, exc, exitMsg, f, mi, tileImages>>

\* lines 85-86: with dryRun set the else branch exits the process
MainDryRun ==
    /\ pc = "main_render"
    /\ args.dryRun
    /\ Exit("Not running render. Option dryRun set True")
    /\ UNCHANGED <<args, i, cacheDir, wedgeName, wedgePath, attr, scene, fs, dirs, exc, failed, log,
                   f, mi, tileImages, child>>

\* ---------------------------------------------------------------- montage
\* lines 89-91: montage runs when the flag is set, and main returns
MainMontage ==
    /\ pc = "main_montage"
    /\ IF args.montage
       THEN /\ log' = Append(log, Ev("montage", -1, -1, cacheDir, <<>>, NoVal, FALSE))
            /\ f' = args.frames[1]
            /\ pc' = "mt_for_f"
       ELSE /\ pc' = "done"
            /\ UNCHANGED <<log, f>>
    /\ UNCHANGED <<args, i, cacheDir, wedgeName, wedgePath, attr, scene, fs, dirs, exc, exitMsg, failed,
                   mi, tileImages, child>>

\* the frame loop stopping before the end frame: range(frames[0], frames[1])
MtForFExclusive ==
    /\ pc = "mt_for_f"
    /\ IF f < args.frames[2]
       THEN /\ tileImages' = <<>>
            /\ mi' = 0
            /\ pc' = "mt_for_i"
       ELSE /\ pc' = "mt_movie"
            /\ UNCHANGED <<tileImages, mi>>
    /\ UNCHANGED <<args, i, cacheDir, wedgeName, wedgePath, attr, scene, fs, dirs, exc, exitMsg, failed,
                   log, f, child>>

\* lines 157-159: for f in range(frames[0], frames[1]+1)
MtForF ==
    /\ pc = "mt_for_f"
    /\ IF f <= args.frames[2]
       THEN /\ tileImages' = <<>>
            /\ mi' = 0
            /\ pc' = "mt_for_i"
       ELSE /\ pc' = "mt_movie"
            /\ UNCHANGED <<tileImages, mi>>
    /\ UNCHANGED <<args, i, cacheDir, wedgeName, wedgePath, attr, scene, fs, dirs, exc, exitMsg, failed,
                   log, f, child>>

\* the frame number padded as the variant index is
FrameTwoDigits(fr) == Pad(fr, IndexPad)

\* '{0:04d}'.format(f)
Frame(fr) == Pad(fr, FramePad)

\* line 164: os.path.join(cacheDir, wedgeName+'.'+frame+'.jpg')
ImageFile(dir, name, fr) == PathJoin(<<dir, name \o <<".">> \o Frame(fr) \o <<".", "jpg">>>>)

\* lines 163 and 166: the label command; the label's text is the one word in quotes
LabelCmd(imageFile, name, value) ==
    << <<"convert">>, imageFile, <<"-font">>, <<"Arial">>, <<"-pointsize">>, <<"4", "0">>,
       <<"-background">>, <<"Khaki">>, <<"label:'">> \o name \o <<": ">> \o value \o <<"'">>,
       <<"-gravity">>, <<"Center">>, <<"-append">>, imageFile >>

\* lines 161-171: one label command per variant; the image joins tileImages
\* before the command runs
MtLabel ==
    /\ pc = "mt_for_i"
    /\ mi < N
    /\ LET name == WedgeName(args.wedgeNode, mi)
           imageFile == ImageFile(cacheDir, name, f)
       IN  /\ tileImages' = Append(tileImages, imageFile)
           /\ \E o \in CallOutcomes :
                 /\ log' = Append(log, Ev("label", mi, f, imageFile,
                                          LabelCmd(imageFile, name, args.wedgeList[mi + 1]), NoVal, o = "raise"))
                 /\ failed' = (failed \/ o # "zero")
                 /\ IF o = "raise"
                    THEN /\ Exit("Something wrong happened while adding text to the rendered images")
                         /\ UNCHANGED mi
                    ELSE /\ mi' = mi + 1
                         /\ UNCHANGED <<pc, exitMsg>>
    /\ UNCHANGED <<args, i, cacheDir, wedgeName, wedgePath, attr, scene, fs, dirs, exc, f, child>>

\* line 176: os.path.join(cacheDir, 'Montage.'+frame+'.jpg')
TilePath(dir, fr) == PathJoin(<<dir, <<"Montage", ".">> \o Frame(fr) \o <<".", "jpg">>>>)

\* lines 175-177: the tile command over ' '.join(tileImages)
TileCmd(images, path) == << <<"montage">>, <<"-geometry">>, <<"+0+0">> >> \o images \o <<path>>

\* lines 174-179: the images of the frame are tiled once the label loop is over
MtTile ==
    /\ pc = "mt_for_i"
    /\ mi >= N
    /\ \E o \in CallOutcomes :
          /\ log' = Append(log, Ev("tile", -1, f, TilePath(cacheDir, f),
                                   TileCmd(tileImages, TilePath(cacheDir, f)), NoVal, o = "raise"))
          /\ failed' = (failed \/ o # "zero")
          /\ IF o = "raise"
             THEN Exit("Something wrong happened while tiling images together")
             ELSE pc' = "mt_resize" /\ UNCHANGED exitMsg
    /\ UNCHANGED <<args, i, cacheDir, wedgeName, wedgePath, attr, scene, fs, dirs, exc, f, mi, tileImages, child>>

\* line 181
ResizeCmd(path) == << <<"convert">>, <<"-resize">>, <<"1280x720">>, path, path >>

\* lines 180-185: the tiled image is resized in place, in the try of the tile command
MtResize ==
    /\ pc = "mt_resize"
    /\ \E o \in CallOutcomes :
          /\ log' = Append(log, Ev("resize", -1, f, TilePath(cacheDir, f),
                                   ResizeCmd(TilePath(cacheDir, f)), NoVal, o = "raise"))
          /\ failed' = (failed \/ o # "zero")
          /\ IF o = "raise"
             THEN /\ Exit("Something wrong happened while tiling images together")
                  /\ UNCHANGED f
             ELSE /\ f' = f + 1
                  /\ pc' = "mt_for_f"
                  /\ UNCHANGED exitMsg
    /\ UNCHANGED <<args, i, cacheDir, wedgeName, wedgePath, attr, scene, fs, dirs, exc, mi, tileImages, child>>

\* lines 189-190
MovieCmd(dir) ==
    << <<"ffmpeg">>, <<"-r">>, <<"23.98">>, <<"-i">>, PathJoin(<<dir, <<"Montage", ".", "%04d", ".", "jpg">>>>),
       <<"-c:v">>, <<"libx264">>, <<"-s">>, <<"1280x720">>, PathJoin(<<dir, <<"Montage", ".", "mov">>>>) >>

\* lines 188-198: the encoder; its except prints and returns, and main returns after it
MtMovie ==
    /\ pc = "mt_movie"
    /\ \E o \in CallOutcomes :
          /\ log' = Append(log, Ev("encode", -1, -1, PathJoin(<<cacheDir, <<"Montage", ".", "mov">>>>),
                                   MovieCmd(cacheDir), NoVal, o = "raise"))
          /\ failed' = (failed \/ o # "zero")
    /\ pc' = "done"
    /\ UNCHANGED <<args, i, cacheDir, wedgeName, wedgePath, attr, scene, fs, dirs, exc, exitMsg, f, mi,
                   tileImages, child>>

\* ---------------------------------------------------------- specification
Next ==
    \/ MainMkdir
    \/ MainFor
    \/ WsFloat
    \/ WsOpen
    \/ WsSetAttr
    \/ WsContainer
    \/ WsSave
    \/ WsQuit
    \/ MainExcept
    \/ MainRender
    \/ MainWait
    \/ MainDryRun
    \/ MainMontage
    \/ MtForF
    \/ MtLabel
    \/ MtTile
    \/ MtResize
    \/ MtMovie

Spec == Init /\ [][Next]_vars

\* the process has ended: it returned from main or exited
Ended == pc \in {"done", "exited"}

\* the loop over the wedge list is over
LoopOver == pc \in {"main_montage", "mt_for_f", "mt_for_i", "mt_resize", "mt_movie", "done"}

\* wedgeSetup is running
InSetup == pc \in {"ws_float", "ws_open", "ws_setAttr", "ws_container", "ws_save", "ws_quit"}

\* ------------------------------------------------------- reading the log
\* where the log holds operation op
Pos(op) == {p \in DOMAIN log : log[p].op = op}

\* where the log holds operation op of variant k
At(op, k) == {p \in DOMAIN log : log[p].op = op /\ log[p].i = k}

\* where the log holds operation op of variant k that did not raise
DoneAt(op, k) == {p \in At(op, k) : ~log[p].raised}

\* the words the shell makes of a command: an empty slot leaves no word
ShellWords(cmd) == SelectSeq(cmd, LAMBDA w : Len(w) > 0)

\* the word that follows the flag in a command
ArgAfter(cmd, flag) ==
    LET ws == ShellWords(cmd)
    IN  ws[(CHOOSE q \in 1..(Len(ws) - 1) : ws[q] = flag) + 1]

Last(seq) == seq[Len(seq)]

\* a path with its repeated and trailing separators dropped: two paths that
\* differ only so name the same file
RECURSIVE Collapse(_)
Collapse(p) ==
    IF Len(p) <= 1 THEN p
    ELSE IF p[1] = SEP /\ p[2] = SEP THEN Collapse(Tail(p))
    ELSE <<p[1]>> \o Collapse(Tail(p))

NormPath(p) ==
    LET c == Collapse(p)
    IN  IF Len(c) > 1 /\ c[Len(c)] = SEP THEN SubSeq(c, 1, Len(c) - 1) ELSE c

\* the operations of wedgeSetup and the renderer's start and end
VariantOps == {"float", "open", "setAttr", "container", "save", "quit", "render", "rendered"}

\* ------------------------------------------------------------------ claims

\* C1: in a run with dry-run unset in which no operation has failed, once the
\* loop over the wedge list is over exactly N variants have been saved and the
\* renderer has been invoked exactly N times; for every index k there is one
\* save of variant k, made after the wedge attribute was set to
\* float(wedgeList[k]), and one render invocation, whose scene argument is the
\* path of that save.
C1_OneSaveOneRenderPerValue ==
    (LoopOver /\ ~args.dryRun /\ ~failed) =>
        /\ Cardinality({p \in Pos("save") : ~log[p].raised}) = N
        /\ Cardinality(Pos("render")) = N
        /\ \A k \in 0..(N - 1) :
              /\ Cardinality(DoneAt("save", k)) = 1
              /\ Cardinality(At("render", k)) = 1
              /\ \A ps \in DoneAt("save", k), pr \in At("render", k) :
                    /\ ps < pr
                    /\ Last(ShellWords(log[pr].cmd)) = log[ps].path
                    /\ \E pa \in DoneAt("setAttr", k) :
                          /\ pa < ps
                          /\ log[pa].path = args.wedgeNode
                          /\ log[pa].val = Float(args.wedgeList[k + 1])

\* a run without dry-run and without failure that saved and rendered two variants
C1_Witness ==
    /\ pc = "done" /\ ~args.dryRun /\ ~failed /\ N = 2
    /\ Cardinality(Pos("render")) = 2
    /\ log[CHOOSE p \in At("setAttr", 1) : TRUE].val # log[CHOOSE p \in At("setAttr", 0) : TRUE].val

\* C2: in a run with the dry-run flag set that has ended without a failure,
\* the scene was opened, the attribute set and a variant saved for every index
\* of the wedge list, and the renderer was never invoked.
C2_DryRunSavesEveryVariant ==
    (Ended /\ args.dryRun /\ ~failed) =>
        /\ \A k \in 0..(N - 1) :
              /\ DoneAt("open", k) # {}
              /\ DoneAt("setAttr", k) # {}
              /\ DoneAt("save", k) # {}
        /\ Pos("render") = {}

\* C4: variants are processed one at a time in index order: when the scene is
\* opened for variant j, every variant before it has been saved and, with
\* dry-run unset, its renderer has returned; no renderer is running while
\* wedgeSetup runs, and never more than one is running.
C4_OneVariantAtATime ==
    /\ \A q \in Pos("open") : \A k \in 0..(log[q].i - 1) :
          /\ \E p \in DoneAt("save", k) : p < q
          /\ ~args.dryRun => \E p \in At("rendered", k) : p < q
    /\ \A p \in DOMAIN log, q \in DOMAIN log :
          (p < q /\ log[p].op \in VariantOps /\ log[q].op \in VariantOps) => log[p].i <= log[q].i
    /\ InSetup => child = {}
    /\ Cardinality(child) <= 1

\* the scene is opened for the second variant after the first was rendered
C4_Witness ==
    /\ pc = "ws_setAttr" /\ i = 1
    /\ At("rendered", 0) # {}
    /\ DoneAt("open", 1) # {}

\* C5: once an operation of the run has failed (a raise, or a command that
\* ended with a nonzero status), the process performs no later operation.
C5_NoOperationAfterFailure == [][failed => log' = log]_vars

\* the layout the claims name: <projDir>/cache/bifrost/<sceneName>/<node_attribute>
LayoutDir ==
    args.projDir \o <<"/", "cache", "/", "bifrost", "/">> \o SplitFirst(PathTail(args.mayaFile), ".")
                 \o <<"/">> \o Replace(args.wedgeNode, ".", "_")

\* <node_attribute>_<k, two digits>
LayoutName(k) == Replace(args.wedgeNode, ".", "_") \o <<"_">> \o Pad(k, 2)

ContainerKey(prop) == args.containerName \o <<".", prop>>

\* every save and every render command of the log follows the layout
FollowsLayout ==
    \A p \in DOMAIN log :
        /\ (log[p].op = "save" /\ ~log[p].raised) =>
              /\ NormPath(log[p].path) = NormPath(LayoutDir \o <<"/">> \o LayoutName(log[p].i) \o <<".", "mb">>)
              /\ \E v \in {pr[2] : pr \in {x \in log[p].attrs : x[1] = ContainerKey("cacheDir")}} :
                    v.t = "str" /\ NormPath(v.s) = NormPath(LayoutDir)
              /\ <<ContainerKey("cacheName"), StrVal(LayoutName(log[p].i))>> \in log[p].attrs
        /\ log[p].op = "render" =>
              /\ NormPath(ArgAfter(log[p].cmd, <<"-rd">>)) = NormPath(LayoutDir)
              /\ ArgAfter(log[p].cmd, <<"-im">>) = LayoutName(log[p].i)

\* C3 as stated: for every variant index the saved scene file is at
\* <projDir>/cache/bifrost/<sceneName>/<node_attribute>/<variant-name>.mb, and
\* the container's cacheDir and cacheName and the renderer's -rd and -im name
\* that directory and that variant name (paths compared as the files they name).
C3_LayoutAsStated == FollowsLayout

\* C3 as amended: the same, when --projDir is not empty and --node does not
\* start with the separator.
C3_Layout ==
    (Len(args.projDir) > 0 /\ ~(Len(args.wedgeNode) > 0 /\ args.wedgeNode[1] = SEP)) => FollowsLayout

\* the second variant was saved and rendered under a project directory given
\* with its trailing separator
C3_Witness ==
    /\ Len(args.projDir) > 1 /\ Last(args.projDir) = SEP
    /\ DoneAt("save", 1) # {}
    /\ At("render", 1) # {}

\* C6: in a run with the montage flag set that has ended without a failure,
\* with dry-run set or unset, montage was called exactly once, after every
\* variant was saved and (dry-run unset) rendered; with the montage flag unset
\* no label, tile, resize or encode command is ever issued.
C6_MontageGatedOnlyByFlag ==
    /\ (Ended /\ ~failed /\ args.montage) =>
          /\ Cardinality(Pos("montage")) = 1
          /\ \A pm \in Pos("montage") : \A k \in 0..(N - 1) :
                /\ \E p \in DoneAt("save", k) : p < pm
                /\ ~args.dryRun => \E p \in At("rendered", k) : p < pm
    /\ ~args.montage => \A p \in DOMAIN log : log[p].op \notin {"montage", "label", "tile", "resize", "encode"}

\* the commands of one frame: a label per variant, the tile, the resize
FrameOps(n, fr) == [k \in 1..n |-> <<"label", fr, k - 1>>] \o << <<"tile", fr, -1>>, <<"resize", fr, -1>> >>

\* the commands of the frames s..e in ascending order
RECURSIVE FramesOps(_, _, _)
FramesOps(n, s, e) == IF s > e THEN <<>> ELSE FrameOps(n, s) \o FramesOps(n, s + 1, e)

\* the commands of a whole montage
MontageOps(n, s, e) == FramesOps(n, s, e) \o << <<"encode", -1, -1>> >>

\* the commands montage has issued, in order
IssuedOps ==
    LET cmds == SelectSeq(log, LAMBDA ev : ev.op \in {"label", "tile", "resize", "encode"})
    IN  [k \in 1..Len(cmds) |-> <<cmds[k].op, cmds[k].f, cmds[k].i>>]

IsPrefix(a, b) == Len(a) <= Len(b) /\ SubSeq(b, 1, Len(a)) = a

\* montage was called and has returned
MontageReturned == pc = "done" /\ Pos("montage") # {}

\* the order of montage's commands, and what the tile and resize commands work on
MontageSequence ==
    /\ IsPrefix(IssuedOps, MontageOps(N, args.frames[1], args.frames[2]))
    /\ MontageReturned => IssuedOps = MontageOps(N, args.frames[1], args.frames[2])
    /\ \A p \in Pos("tile") :
          /\ Len(log[p].cmd) = N + 4
          /\ \A k \in 0..(N - 1) : \E q \in DOMAIN log :
                /\ q < p /\ log[q].op = "label" /\ log[q].f = log[p].f /\ log[q].i = k
                /\ log[p].cmd[4 + k] = log[q].path
          /\ Last(log[p].cmd) = log[p].path
    /\ \A p \in Pos("resize") : \E q \in Pos("tile") :
          q < p /\ log[q].f = log[p].f /\ log[p].cmd[4] = log[q].path /\ log[p].cmd[5] = log[q].path

NumberOf(op) == Cardinality(Pos(op))

\* C7 as stated: per frame from start to end, ascending, one label command per
\* variant in index order, then one tile command over those images, then one
\* resize of the tiled image; one encode after the last resize; in all
\* N*(end-start+1) label, end-start+1 tile, end-start+1 resize and 1 encode.
C7_MontageAsStated ==
    /\ MontageSequence
    /\ MontageReturned =>
          /\ NumberOf("label") = N * (args.frames[2] - args.frames[1] + 1)
          /\ NumberOf("tile") = args.frames[2] - args.frames[1] + 1
          /\ NumberOf("resize") = args.frames[2] - args.frames[1] + 1
          /\ NumberOf("encode") = 1

\* the number of frames of start..end: none when the end is before the start
FrameCount == IF args.frames[2] >= args.frames[1] THEN args.frames[2] - args.frames[1] + 1 ELSE 0

\* C7 as amended: the same sequence; the counts are N*F label, F tile, F resize
\* and 1 encode with F the number of frames of start..end, 0 when end < start.
C7_MontageSequence ==
    /\ MontageSequence
    /\ MontageReturned =>
          /\ NumberOf("label") = N * FrameCount
          /\ NumberOf("tile") = FrameCount
          /\ NumberOf("resize") = FrameCount
          /\ NumberOf("encode") = 1

\* a montage of two frames of two variants has returned
C7_Witness ==
    /\ MontageReturned /\ N = 2 /\ FrameCount = 2
    /\ NumberOf("label") = 4 /\ NumberOf("encode") = 1

\* the four container properties as wedgeSetup sets them for variant k
ContainerAttrs(k) ==
    { <<ContainerKey("enableDiskCache"), IntVal(1)>>,
      <<ContainerKey("cachingControl"), IntVal(2)>>,
      <<ContainerKey("cacheDir"), StrVal(cacheDir \o <<"/">>)>>,
      <<ContainerKey("cacheName"), StrVal(LayoutName(k))>> }

ContainerKeys == {ContainerKey("enableDiskCache"), ContainerKey("cachingControl"),
                  ContainerKey("cacheDir"), ContainerKey("cacheName")}

\* the wedge attribute set to float(wedgeList[k])
WedgeAttr(k) == { <<args.wedgeNode, Float(args.wedgeList[k + 1])>> }

\* the save at p was made from the source scene: the scene file was opened
\* for that variant before any of its attributes was set
OpenedFromSource(p) ==
    \E po \in DoneAt("open", log[p].i) :
        /\ po < p
        /\ log[po].path = args.mayaFile
        /\ \A q \in At("setAttr", log[p].i) \cup At("container", log[p].i) : po < q

\* the paths of the saved variants
SavedPaths == {log[p].path : p \in {q \in Pos("save") : ~log[q].raised}}

\* C8 as stated: every wedgeSetup re-opens the source scene, so the scene saved
\* for variant k is the source scene with only the wedge attribute set to
\* float(wedgeList[k]) and the container's four properties set for variant k,
\* nothing of an earlier variant in it, and the source scene file is never
\* overwritten.
C8_ResetAsStated ==
    /\ \A p \in Pos("save") :
          ~log[p].raised =>
              /\ OpenedFromSource(p)
              /\ log[p].attrs = WedgeAttr(log[p].i) \cup ContainerAttrs(log[p].i)
              /\ fs[log[p].path] = log[p].attrs
    /\ fs[args.mayaFile] = {}

\* C8 as amended: the saved scene is the source scene as the run found it with
\* only the container's four properties set for variant k and, unless the wedge
\* attribute is itself one of the four, the wedge attribute set to
\* float(wedgeList[k]); the source scene file is not overwritten unless its path
\* is the path of a variant.
C8_Reset ==
    /\ \A p \in Pos("save") :
          ~log[p].raised =>
              /\ OpenedFromSource(p)
              /\ log[p].attrs = ContainerAttrs(log[p].i)
                                \cup (IF args.wedgeNode \in ContainerKeys THEN {} ELSE WedgeAttr(log[p].i))
              /\ \A q \in Pos("save") : (q > p /\ ~log[q].raised) => log[q].path # log[p].path
              /\ fs[log[p].path] = log[p].attrs
    /\ args.mayaFile \notin SavedPaths => fs[args.mayaFile] = {}

\* the second variant was saved with a value other than the first's
C8_Witness ==
    /\ DoneAt("save", 1) # {}
    /\ args.wedgeList[1] # args.wedgeList[2]
    /\ args.wedgeNode \notin ContainerKeys
    /\ args.mayaFile \notin SavedPaths

\* C9: a failure inside wedgeSetup for variant k is the last operation of the
\* run: the process is in main's except or has exited with main's message, the
\* renderer was not invoked for k, nothing was done for an index above k and
\* montage was not called; when the value did not convert, the scene was not
\* opened and nothing was saved for k.
C9_SetupFailureAborts ==
    \A p \in DOMAIN log :
        (log[p].raised /\ log[p].op \in {"float", "open", "setAttr", "container", "save", "quit"}) =>
            /\ p = Len(log)
            /\ pc \in {"main_except", "exited"}
            /\ pc = "exited" => exitMsg = "Couldn't setup wedgescene file"
            /\ At("render", log[p].i) = {}
            /\ \A q \in DOMAIN log : log[q].i <= log[p].i
            /\ Pos("montage") = {}
            /\ log[p].op = "float" => (At("open", log[p].i) = {} /\ At("save", log[p].i) = {})

\* the process has exited on the second variant's value, which does not convert
C9_Witness ==
    /\ pc = "exited"
    /\ Len(log) > 0 /\ Last(log).op = "float" /\ Last(log).raised /\ Last(log).i = 1

\* the file the renderer writes for a frame, from its command line: in the -rd
\* directory, <-im>.<frame, -pad digits>.<-of>
RenderedFile(cmd, fr) ==
    ArgAfter(cmd, <<"-rd">>) \o <<"/">> \o ArgAfter(cmd, <<"-im">>) \o <<".">>
        \o Pad(fr, DigitsVal(ArgAfter(cmd, <<"-pad">>))) \o <<".">> \o ArgAfter(cmd, <<"-of">>)

\* the files the renderer was told to write: the frames -s..-e of every command
RenderedFiles ==
    UNION { {NormPath(RenderedFile(log[p].cmd, fr)) :
                fr \in DigitsVal(ArgAfter(log[p].cmd, <<"-s">>))..DigitsVal(ArgAfter(log[p].cmd, <<"-e">>))} :
            p \in Pos("render") }

\* the images montage has read
LabelledFiles == {NormPath(log[p].path) : p \in Pos("label")}

====
